---- MODULE Spec2Model ----
(***************************************************************************)
(* A model of package anycache (src/pkg/anycache/anycache.go): a map       *)
(* guarded by one mutex, with the operations New, Set, Get, Keys, Flush    *)
(* and Len, called by concurrent goroutines.  Every operation is split at  *)
(* the statements of its source: the Lock, each access of ac.items, and    *)
(* the return (which runs the deferred Unlock).                            *)
(***************************************************************************)
EXTENDS Integers, Sequences, FiniteSets, TLC

\* ------------------------------------------------------------------ bounds
NCallers == 2     \* goroutines that call the store at will
NKeys == 2        \* keys the callers choose from
MaxCalls == 3     \* calls the callers make in all
NWorkers == 3     \* goroutines a test starts (100 in the tests)
NPre == 1         \* keys a test sets before it starts them (50 in the tests)

\* --------------------------------------------------------------- constants
maxCacheSize == 5 * 100 * 1024 * 1024

\* Go's nil: the zero value of an `any` (the fields of Item{}), also used
\* for "no goroutine" as the holder of a free mutex.
Nil == -1

\* A key of a type that is not comparable (incmpUser of the example program).
Incmp == -2
Comparable(k) == k # Incmp

Callers == 0 .. (NCallers - 1)
Workers == 0 .. (NWorkers - 1)    \* go func(i int) {...}(i)
\* The goroutine that runs a test function and starts the workers.
Main == IF NCallers > NWorkers THEN NCallers ELSE NWorkers
Procs == 0 .. Main

Keys == 0 .. (NKeys - 1)
KeySpace == 0 .. (NKeys + NWorkers + NPre)

\* The capacities New is called with: those of the tests and of the example
\* programs, and both sides of each of its two limits.
Capacities ==
    {-1, 0, 1, 5, 10, 100, 10000, 10 * 1024 * 1024,
     maxCacheSize - 1, maxCacheSize, maxCacheSize + 1}

\* The capacity of the store the callers share (TestNew's smallest valid one).
SmallCapacity == 1

\* ------------------------------------------------------------------- types
\* type Item struct { Key any; Value any }
Item(k, v) == [Key |-> k, Value |-> v]
ZeroItem == Item(Nil, Nil)

\* A call: the method and its arguments.
SetOp(k, v) == [name |-> "Set", key |-> k, value |-> v]
GetOp(k) == [name |-> "Get", key |-> k, value |-> Nil]
KeysOp == [name |-> "Keys", key |-> Nil, value |-> Nil]
FlushOp == [name |-> "Flush", key |-> Nil, value |-> Nil]
LenOp == [name |-> "Len", key |-> Nil, value |-> Nil]
NoOp == [name |-> "none", key |-> Nil, value |-> Nil]

\* The calls a caller may make as the n-th call of a run.  The value of a
\* Set is the number of the call, so that no two Sets store the same value
\* and a stale or misplaced value shows.
OpsAt(n) ==
    {SetOp(k, n) : k \in Keys} \cup {GetOp(k) : k \in Keys}
        \cup {KeysOp, FlushOp, LenOp}

NoResult == [op |-> "none"]

\* ------------------------------------------------------ Go's map[any]any
\* A map is a function whose domain is the set of keys present.
EmptyMap == [k \in {} |-> Nil]
\* _, ok := m[key]
MapHas(m, k) == k \in DOMAIN m
\* v := m[key] (the zero value when the key is absent)
MapGet(m, k) == IF k \in DOMAIN m THEN m[k] ELSE Nil
\* Mutants of m[key] = value: one that leaves a present key as it is, one
\* that stores into a map of its own.
MapPutKeepOld(m, k, v) ==
    [x \in (DOMAIN m) \cup {k} |-> IF x \in DOMAIN m THEN m[x] ELSE v]
MapPutAlone(m, k, v) == [x \in {k} |-> v]
\* Mutant of m[key] = value: the value is stored under every key of the map.
MapPutAll(m, k, v) == [x \in (DOMAIN m) \cup {k} |-> v]
\* m[key] = value
MapPut(m, k, v) == [x \in (DOMAIN m) \cup {k} |-> IF x = k THEN v ELSE m[x]]
\* len(m)
MapLen(m) == Cardinality(DOMAIN m)
\* Mutant of clear(m): nothing is removed.
MapClearNothing(m) == m
\* clear(m)
MapClear(m) == EmptyMap

Range(s) == {s[i] : i \in 1 .. Len(s)}

\* Mutant of New's first check: > in place of >=.
NewErrOffByOne(capacity) ==
    IF capacity > maxCacheSize THEN "ErrMaxCacheSize"
    ELSE IF capacity < 1 THEN "ErrMinCacheSize"
    ELSE "nil"

\* New's two range checks, in the order of the source.
NewErr(capacity) ==
    IF capacity >= maxCacheSize THEN "ErrMaxCacheSize"
    ELSE IF capacity < 1 THEN "ErrMinCacheSize"
    ELSE "nil"

VARIABLES
    ac,           \* New's first result: "nil" or "store"
    err,          \* New's second result: "none" before the call
    capacity,     \* the argument New was called with (Nil before the call)
    items,        \* ac.items
    mu,           \* ac.mu: the goroutine that holds it, or Nil
    pc,           \* pc[p]: the statement goroutine p is at
    op,           \* op[p]: the call p is in
    overwritten,  \* Set's local
    item,         \* Get's local
    ok,           \* Get's local
    ret,          \* Keys' local slice
    result,       \* result[p]: what p's last call returned
    tpc,          \* tpc[p]: p's position in the test function's goroutine
    hitCount,     \* the test's counter of hits
    i,            \* the loop counter of the test's main goroutine
    ncalls,       \* history: the number of calls made so far
    lastSet,      \* history: per key, the value of the latest Set since
                  \* construction or the last Flush (Nil: none)
    flushed,      \* history: [clean, keys]: no Set has stored since the last
                  \* Flush cleared the map, and the keys that Flush removed
    before        \* history: lastSet as it was when the call now holding
                  \* the mutex acquired it

\* type AnyCache struct { items map[any]any; mu *sync.Mutex }: the struct New
\* returns a pointer to.  Its fields are references: to the map that the
\* variable items holds and to the mutex that the variable mu holds.
TheStore == [items |-> "the map", mu |-> "the mutex"]

\* Mutant of the copy of the struct: the mutex is a field by value
\* (mu sync.Mutex) and the copy gets one of its own.
CopyStructOwnMutex(s) == [items |-> s.items, mu |-> "a mutex of the copy"]

\* The copy a value receiver is called with: field by field, and the copy of
\* a map or of a pointer refers to what the original refers to.
CopyStruct(s) == [items |-> s.items, mu |-> s.mu]

\* The methods declared on the struct, func (ac AnyCache); the others are
\* declared on the pointer, func (ac *AnyCache).
ValueReceivers == {"Get", "Keys", "Len"}

\* The ac of a method's body.
Receiver(name) ==
    IF name \in ValueReceivers THEN CopyStruct(TheStore) ELSE TheStore

store == <<ac, err, capacity>>
locals == <<overwritten, item, ok, ret>>
test == <<tpc, hitCount, i>>
history == <<ncalls, lastSet, flushed, before>>
vars == <<ac, err, capacity, items, mu, pc, op, overwritten, item, ok, ret,
          result, tpc, hitCount, i, ncalls, lastSet, flushed, before>>

NoFlush == [clean |-> FALSE, keys |-> {}]
SetKeys == {k \in KeySpace : lastSet[k] # Nil}
NoneSet == [k \in KeySpace |-> Nil]

\* The map s.items refers to: a map that is not the store's is one nobody
\* has written to.
MapOf(s) == IF s.items = TheStore.items THEN items ELSE EmptyMap
\* s.mu is the mutex of the store.
LocksStore(s) == s.mu = TheStore.mu

\* What no call has touched yet: an empty map, a free mutex, every goroutine
\* outside the store's methods.
Rest ==
    /\ items = EmptyMap
    /\ mu = Nil
    /\ pc = [p \in Procs |-> "idle"]
    /\ op = [p \in Procs |-> NoOp]
    /\ overwritten = [p \in Procs |-> FALSE]
    /\ item = [p \in Procs |-> Nil]
    /\ ok = [p \in Procs |-> FALSE]
    /\ ret = [p \in Procs |-> <<>>]
    /\ result = [p \in Procs |-> NoResult]
    /\ tpc = [p \in Procs |-> "start"]
    /\ hitCount = 0
    /\ i = 0
    /\ ncalls = 0
    /\ lastSet = NoneSet
    /\ flushed = NoFlush
    /\ before = NoneSet

\* Before New is called.
InitNew ==
    /\ ac = "nil"
    /\ err = "none"
    /\ capacity = Nil
    /\ Rest

\* After New(SmallCapacity) has returned the store.
Init ==
    /\ ac = "store"
    /\ err = NewErr(SmallCapacity)
    /\ capacity = SmallCapacity
    /\ Rest

\* ---------------------------------------------------------------------- New
New(c) ==
    /\ err = "none"
    /\ capacity' = c
    /\ err' = NewErr(c)
    /\ ac' = IF NewErr(c) = "nil" THEN "store" ELSE "nil"
    /\ items' = EmptyMap
    /\ mu' = Nil
    /\ UNCHANGED <<pc, op, locals, result, test, history>>

\* --------------------------------------------------------------- the calls
\* Goroutine p calls method o.name of the store with o's arguments.
Invoke(p, o) ==
    /\ ac = "store"
    /\ pc[p] = "idle"
    /\ op' = [op EXCEPT ![p] = o]
    /\ pc' = [pc EXCEPT ![p] = o.name \o "Lock"]
    /\ result' = [result EXCEPT ![p] = NoResult]
    /\ UNCHANGED <<store, items, mu, locals, lastSet, flushed, before>>

\* ac.mu.Lock(): blocks until the mutex is free.
Acquire(p, at, next) ==
    /\ pc[p] = at
    /\ IF LocksStore(Receiver(op[p].name))
       THEN mu = Nil /\ mu' = p
       ELSE mu' = mu
    /\ pc' = [pc EXCEPT ![p] = next]
    /\ before' = lastSet
    /\ UNCHANGED <<store, items, op, locals, result, test, ncalls, lastSet, flushed>>

\* The return of a call: its results are delivered and the deferred
\* ac.mu.Unlock() runs; the locals are gone.
Return(p, at, r) ==
    /\ pc[p] = at
    /\ result' = [result EXCEPT ![p] = r]
    /\ mu' = IF LocksStore(Receiver(op[p].name)) THEN Nil ELSE mu
    /\ pc' = [pc EXCEPT ![p] = "idle"]
    /\ overwritten' = [overwritten EXCEPT ![p] = FALSE]
    /\ item' = [item EXCEPT ![p] = Nil]
    /\ ok' = [ok EXCEPT ![p] = FALSE]
    /\ ret' = [ret EXCEPT ![p] = <<>>]
    /\ op' = [op EXCEPT ![p] = NoOp]
    /\ before' = NoneSet
    /\ UNCHANGED <<store, items, test, ncalls, lastSet, flushed>>

\* ---------------------------------------------------------------------- Set
SetLock(p) == Acquire(p, "SetLock", "Set51")

\* Mutant of Set's lookup: overwritten is never set.
SetLookupNoFlag(p) ==
    /\ pc[p] = "Set51"
    /\ pc' = [pc EXCEPT ![p] = "Set55"]
    /\ UNCHANGED <<store, items, mu, op, locals, result, test, history>>

\* Mutant of Set's lookup: the lock covers the lookup alone and is given up
\* before the store.
SetLookupUnlocks(p) ==
    /\ pc[p] = "Set51"
    /\ overwritten' = [overwritten EXCEPT ![p] = MapHas(items, op[p].key)]
    /\ mu' = Nil
    /\ pc' = [pc EXCEPT ![p] = "Set55"]
    /\ UNCHANGED <<store, items, op, item, ok, ret, result, test, history>>

\* The result of a call that panicked.
Panic == [op |-> "panic"]

\* Mutant of the panic in Set: the Unlock is not deferred and the panic
\* leaves the mutex locked.
SetPanicHoldsLock(p) ==
    /\ pc[p] = "Set51"
    /\ ~Comparable(op[p].key)
    /\ result' = [result EXCEPT ![p] = Panic]
    /\ pc' = [pc EXCEPT ![p] = "idle"]
    /\ op' = [op EXCEPT ![p] = NoOp]
    /\ before' = NoneSet
    /\ UNCHANGED <<store, items, mu, locals, test, ncalls, lastSet, flushed>>

\* _, ok := ac.items[key] with a key that cannot be hashed: the runtime
\* panics, the deferred ac.mu.Unlock() runs and Set does not return.
SetPanic(p) ==
    /\ ~Comparable(op[p].key)
    /\ Return(p, "Set51", Panic)

\* _, ok := ac.items[key]; if ok { overwritten = true }
SetLookup(p) ==
    /\ pc[p] = "Set51"
    /\ Comparable(op[p].key)
    /\ overwritten' = [overwritten EXCEPT ![p] = MapHas(items, op[p].key)]
    /\ pc' = [pc EXCEPT ![p] = "Set55"]
    /\ UNCHANGED <<store, items, mu, op, item, ok, ret, result, test, history>>

\* Mutant of Set's store: a new key is not stored once the map holds as
\* many entries as the capacity New was given.
SetStoreBounded(p) ==
    /\ pc[p] = "Set55"
    /\ items' = IF ~MapHas(items, op[p].key) /\ MapLen(items) >= capacity
                THEN items
                ELSE MapPut(items, op[p].key, op[p].value)
    /\ pc' = [pc EXCEPT ![p] = "SetRet"]
    /\ lastSet' = [lastSet EXCEPT ![op[p].key] = op[p].value]
    /\ flushed' = NoFlush
    /\ UNCHANGED <<store, mu, op, locals, result, test, ncalls, before>>

\* ac.items[key] = value
SetStore(p) ==
    /\ pc[p] = "Set55"
    /\ items' = MapPut(items, op[p].key, op[p].value)
    /\ pc' = [pc EXCEPT ![p] = "SetRet"]
    /\ lastSet' = [lastSet EXCEPT ![op[p].key] = op[p].value]
    /\ flushed' = NoFlush
    /\ UNCHANGED <<store, mu, op, locals, result, test, ncalls, before>>

\* return Item{Key: key, Value: value}, overwritten
SetResult(p) ==
    [op |-> "Set", item |-> Item(op[p].key, op[p].value),
     overwritten |-> overwritten[p]]

SetReturn(p) == Return(p, "SetRet", SetResult(p))

\* ---------------------------------------------------------------------- Get
\* Mutant of Get's Lock: the value receiver's copy has a mutex of its own,
\* which is always free.
GetLockCopy(p) ==
    /\ pc[p] = "GetLock"
    /\ pc' = [pc EXCEPT ![p] = "Get66"]
    /\ UNCHANGED <<store, items, mu, op, locals, result, test, history>>

GetLock(p) == Acquire(p, "GetLock", "Get66")

\* Mutant of Get's lookup: a lookup of an absent key leaves the key in the
\* map with the zero value.
GetLookupInsert(p) ==
    /\ pc[p] = "Get66"
    /\ item' = [item EXCEPT ![p] = MapGet(items, op[p].key)]
    /\ ok' = [ok EXCEPT ![p] = MapHas(items, op[p].key)]
    /\ items' = IF MapHas(items, op[p].key) THEN items
                ELSE MapPut(items, op[p].key, Nil)
    /\ pc' = [pc EXCEPT ![p] = "GetRet"]
    /\ UNCHANGED <<store, mu, op, overwritten, ret, result, test, history>>

\* item, ok := ac.items[key]
GetLookup(p) ==
    /\ pc[p] = "Get66"
    /\ item' = [item EXCEPT ![p] = MapGet(MapOf(Receiver("Get")), op[p].key)]
    /\ ok' = [ok EXCEPT ![p] = MapHas(MapOf(Receiver("Get")), op[p].key)]
    /\ pc' = [pc EXCEPT ![p] = "GetRet"]
    /\ UNCHANGED <<store, items, mu, op, overwritten, ret, result, test, history>>

\* Mutant of Get's return: the miss branch is missing.
GetResultNoMiss(p) ==
    [op |-> "Get", item |-> Item(op[p].key, item[p]), hit |-> TRUE]

\* if !ok { return Item{}, false }; return Item{Key: key, Value: item}, true
GetResult(p) ==
    IF ~ok[p]
    THEN [op |-> "Get", item |-> ZeroItem, hit |-> FALSE]
    ELSE [op |-> "Get", item |-> Item(op[p].key, item[p]), hit |-> TRUE]

\* Mutant of Get's return: the Unlock is not deferred and the miss return
\* leaves without it.
GetReturnMissKeepsLock(p) ==
    /\ pc[p] = "GetRet"
    /\ result' = [result EXCEPT ![p] = GetResult(p)]
    /\ mu' = IF ok[p] THEN Nil ELSE mu
    /\ pc' = [pc EXCEPT ![p] = "idle"]
    /\ item' = [item EXCEPT ![p] = Nil]
    /\ ok' = [ok EXCEPT ![p] = FALSE]
    /\ op' = [op EXCEPT ![p] = NoOp]
    /\ before' = NoneSet
    /\ UNCHANGED <<store, items, overwritten, ret, test, ncalls, lastSet, flushed>>

GetReturn(p) == Return(p, "GetRet", GetResult(p))

\* --------------------------------------------------------------------- Keys
\* Mutant of Keys' Lock: the range runs without the mutex.
KeysLockCopy(p) ==
    /\ pc[p] = "KeysLock"
    /\ pc' = [pc EXCEPT ![p] = "Keys78"]
    /\ UNCHANGED <<store, items, mu, op, locals, result, test, history>>

KeysLock(p) == Acquire(p, "KeysLock", "Keys78")

\* Mutant of Keys' make: make([]any, len(ac.items)), a slice that already
\* holds len nil elements.
KeysMakeLen(p) ==
    /\ pc[p] = "Keys78"
    /\ ret' = [ret EXCEPT ![p] = [j \in 1 .. MapLen(items) |-> Nil]]
    /\ pc' = [pc EXCEPT ![p] = "Keys79"]
    /\ UNCHANGED <<store, items, mu, op, overwritten, item, ok, result, test, history>>

\* ret := make([]any, 0, len(ac.items))
KeysMake(p) ==
    /\ pc[p] = "Keys78"
    /\ ret' = [ret EXCEPT ![p] = <<>>]
    /\ pc' = [pc EXCEPT ![p] = "Keys79"]
    /\ UNCHANGED <<store, items, mu, op, overwritten, item, ok, result, test, history>>

\* The keys a range over the map has still to produce: each key of the map
\* once, in an order the language leaves open.
KeysLeft(m, s) == (DOMAIN m) \ Range(s)

\* for k := range ac.items { ret = append(ret, k) }: one iteration
KeysAppend(p) ==
    /\ pc[p] = "Keys79"
    /\ \E k \in KeysLeft(MapOf(Receiver("Keys")), ret[p]) :
          ret' = [ret EXCEPT ![p] = Append(ret[p], k)]
    /\ UNCHANGED <<store, items, mu, pc, op, overwritten, item, ok, result, test, history>>

\* the range is exhausted
KeysLoopEnd(p) ==
    /\ pc[p] = "Keys79"
    /\ KeysLeft(MapOf(Receiver("Keys")), ret[p]) = {}
    /\ pc' = [pc EXCEPT ![p] = "KeysRet"]
    /\ UNCHANGED <<store, items, mu, op, locals, result, test, history>>

\* return ret
KeysResult(p) == [op |-> "Keys", keys |-> ret[p]]

KeysReturn(p) == Return(p, "KeysRet", KeysResult(p))

\* -------------------------------------------------------------------- Flush
\* Mutant of Flush's clear: the slices Keys returned are views of the map and
\* lose their elements with it.
FlushClearViews(p) ==
    /\ pc[p] = "Flush90"
    /\ items' = MapClear(items)
    /\ pc' = [pc EXCEPT ![p] = "FlushRet"]
    /\ flushed' = [clean |-> TRUE, keys |-> SetKeys]
    /\ lastSet' = NoneSet
    /\ result' = [q \in Procs |->
                     IF result[q].op = "Keys"
                     THEN [op |-> "Keys", keys |-> <<>>] ELSE result[q]]
    /\ UNCHANGED <<store, mu, op, locals, test, ncalls, before>>

FlushLock(p) == Acquire(p, "FlushLock", "Flush90")

\* clear(ac.items)
FlushClear(p) ==
    /\ pc[p] = "Flush90"
    /\ items' = MapClear(items)
    /\ pc' = [pc EXCEPT ![p] = "FlushRet"]
    /\ flushed' = [clean |-> TRUE, keys |-> SetKeys]
    /\ lastSet' = NoneSet
    /\ UNCHANGED <<store, mu, op, locals, result, test, ncalls, before>>

FlushResult(p) == [op |-> "Flush"]

\* Mutant of Flush's return: the Unlock is missing.
FlushReturnKeepsLock(p) ==
    /\ pc[p] = "FlushRet"
    /\ result' = [result EXCEPT ![p] = FlushResult(p)]
    /\ pc' = [pc EXCEPT ![p] = "idle"]
    /\ op' = [op EXCEPT ![p] = NoOp]
    /\ before' = NoneSet
    /\ UNCHANGED <<store, items, mu, locals, test, ncalls, lastSet, flushed>>

FlushReturn(p) == Return(p, "FlushRet", FlushResult(p))

\* ---------------------------------------------------------------------- Len
LenLock(p) == Acquire(p, "LenLock", "Len97")

\* Mutant of Len: the entries holding a zero value are not counted.
LenResultNonZero(p) ==
    [op |-> "Len", n |-> Cardinality({k \in DOMAIN items : items[k] # 0})]

\* return len(ac.items)
LenResult(p) == [op |-> "Len", n |-> MapLen(MapOf(Receiver("Len")))]

LenReturn(p) == Return(p, "Len97", LenResult(p))

\* ------------------------------------------------------------ specification
\* Any caller calls any method at any time.
Call(p) ==
    /\ ncalls < MaxCalls
    /\ ncalls' = ncalls + 1
    /\ \E o \in OpsAt(ncalls) : Invoke(p, o)
    /\ UNCHANGED test

Step(p) ==
    \/ SetLock(p) \/ SetLookup(p) \/ SetStore(p) \/ SetReturn(p)
    \/ GetLock(p) \/ GetLookup(p) \/ GetReturn(p)
    \/ KeysLock(p) \/ KeysMake(p) \/ KeysAppend(p) \/ KeysLoopEnd(p)
    \/ KeysReturn(p)
    \/ FlushLock(p) \/ FlushClear(p) \/ FlushReturn(p)
    \/ LenLock(p) \/ LenReturn(p)

Next ==
    \/ \E p \in Callers : Call(p)
    \/ \E p \in Callers : Step(p)

Spec == Init /\ [][Next]_vars

\* The scheduler runs every goroutine that can run, so a call that holds the
\* lock goes on to its return; and a goroutine blocked in Lock gets the mutex
\* if it is free again and again (sync.Mutex hands it to a starving waiter).
\* Nothing obliges a caller to make another call.
LockStep(p) ==
    SetLock(p) \/ GetLock(p) \/ KeysLock(p) \/ FlushLock(p) \/ LenLock(p)

InsideStep(p) ==
    \/ SetLookup(p) \/ SetStore(p) \/ SetReturn(p)
    \/ GetLookup(p) \/ GetReturn(p)
    \/ KeysMake(p) \/ KeysAppend(p) \/ KeysLoopEnd(p) \/ KeysReturn(p)
    \/ FlushClear(p) \/ FlushReturn(p)
    \/ LenReturn(p)

Fairness ==
    \A p \in Callers : WF_vars(InsideStep(p)) /\ SF_vars(LockStep(p))

\* Concurrent goroutines as in the tests, each making one call, of any method.
GoCall(p) ==
    /\ tpc[p] = "start"
    /\ \E o \in OpsAt(p) : Invoke(p, o)
    /\ tpc' = [tpc EXCEPT ![p] = "called"]
    /\ UNCHANGED <<hitCount, i, ncalls>>

NextLive == \E p \in Callers : GoCall(p) \/ Step(p)

SpecLive == Init /\ [][NextLive]_vars /\ Fairness

\* ------------------------------------------------- keys that are not comparable
\* Any caller calls any method at any time, Set with the incomparable key
\* included, and goes on after a panic (it recovers).
CallPanic(p) ==
    /\ ncalls < MaxCalls
    /\ ncalls' = ncalls + 1
    /\ \E o \in OpsAt(ncalls) \cup {SetOp(Incmp, ncalls)} : Invoke(p, o)
    /\ UNCHANGED test

NextPanic ==
    \/ \E p \in Callers : CallPanic(p)
    \/ \E p \in Callers : Step(p)
    \/ \E p \in Callers : SetPanic(p)

SpecPanic == Init /\ [][NextPanic]_vars

\* ------------------------------------------- the caller's use of a result
\* A caller writes to what a call returned to it: ret[j] = nil on the slice
\* of Keys (a slice made at line 78), or item.Value = nil on the Item of Get
\* or Set (a struct returned by value, lines 57 and 71).
Scribble(p) ==
    /\ pc[p] = "idle"
    /\ \/ /\ result[p].op = "Keys"
          /\ \E j \in 1 .. Len(result[p].keys) :
                /\ result[p].keys[j] # Nil
                /\ result' = [result EXCEPT ![p].keys[j] = Nil]
       \/ /\ result[p].op \in {"Get", "Set"}
          /\ result[p].item.Value # Nil
          /\ result' = [result EXCEPT ![p].item.Value = Nil]
    /\ UNCHANGED <<store, items, mu, pc, op, locals, test, history>>

NextCopy ==
    \/ Next
    \/ \E p \in Callers : Scribble(p)

SpecCopy == Init /\ [][NextCopy]_vars

\* ---------------------------------------------------- New and a fresh store
\* The caller of New reads the store it got: Len, Keys and Get.
Probe ==
    /\ \E o \in {GetOp(k) : k \in Keys} \cup {KeysOp, LenOp} : Invoke(Main, o)
    /\ UNCHANGED <<test, ncalls>>

Construct == \E c \in Capacities : New(c)

NextNew ==
    \/ Construct
    \/ Probe
    \/ GetLock(Main) \/ GetLookup(Main) \/ GetReturn(Main)
    \/ KeysLock(Main) \/ KeysMake(Main) \/ KeysLoopEnd(Main) \/ KeysReturn(Main)
    \/ LenLock(Main) \/ LenReturn(Main)

SpecNew == InitNew /\ [][NextNew]_vars

\* ------------------------------------------- TestAnyCache_Set, concurrent
\* go func(i int) { defer wg.Done(); cache.Set(i, i) }(i)
GoSet(p) ==
    /\ tpc[p] = "start"
    /\ Invoke(p, SetOp(p, p))
    /\ tpc' = [tpc EXCEPT ![p] = "called"]
    /\ UNCHANGED <<hitCount, i, ncalls>>

\* wg.Done(), deferred: the worker's call has returned
Done(p) ==
    /\ tpc[p] = "called"
    /\ pc[p] = "idle"
    /\ tpc' = [tpc EXCEPT ![p] = "done"]
    /\ UNCHANGED <<store, items, mu, pc, op, locals, result, hitCount, i, history>>

\* wg.Wait()
Wait ==
    /\ tpc[Main] \in {"start", "spawned"}
    /\ \A p \in Workers : tpc[p] = "done"
    /\ tpc' = [tpc EXCEPT ![Main] = "waited"]
    /\ UNCHANGED <<store, items, mu, pc, op, locals, result, hitCount, i, history>>

\* The main goroutine reads the size once every worker is done.
MainLen ==
    /\ tpc[Main] = "waited"
    /\ Invoke(Main, LenOp)
    /\ tpc' = [tpc EXCEPT ![Main] = "checked"]
    /\ UNCHANGED <<hitCount, i, ncalls>>

NextSets ==
    \/ \E p \in Workers :
          \/ GoSet(p)
          \/ SetLock(p) \/ SetLookup(p) \/ SetStore(p) \/ SetReturn(p)
          \/ Done(p)
    \/ Wait
    \/ MainLen
    \/ LenLock(Main)
    \/ LenReturn(Main)

SpecSets == Init /\ [][NextSets]_vars

\* ------------------------------ TestAnyCache_Get, concurrent access with gets
\* for i := 0; i < 50; i++ { cache.Set(i, i) }: one iteration's call
Prepopulate ==
    /\ tpc[Main] = "start"
    /\ i < NPre
    /\ Invoke(Main, SetOp(i, i))
    /\ i' = i + 1
    /\ UNCHANGED <<tpc, hitCount, ncalls>>

\* The loop is over; the main goroutine starts the workers.
Spawn ==
    /\ tpc[Main] = "start"
    /\ i >= NPre
    /\ pc[Main] = "idle"
    /\ tpc' = [tpc EXCEPT ![Main] = "spawned"]
    /\ UNCHANGED <<store, items, mu, pc, op, locals, result, hitCount, i, history>>

\* go func(i int) { defer wg.Done(); _, hit := cache.Get(i); ... }(i)
GoGet(p) ==
    /\ tpc[Main] = "spawned"
    /\ tpc[p] = "start"
    /\ Invoke(p, GetOp(p))
    /\ tpc' = [tpc EXCEPT ![p] = "called"]
    /\ UNCHANGED <<hitCount, i, ncalls>>

\* if hit { mu.Lock(); hitCount++; mu.Unlock() }, then the deferred wg.Done()
CountHit(p) ==
    /\ tpc[p] = "called"
    /\ pc[p] = "idle"
    /\ hitCount' = IF result[p].hit THEN hitCount + 1 ELSE hitCount
    /\ tpc' = [tpc EXCEPT ![p] = "done"]
    /\ UNCHANGED <<store, items, mu, pc, op, locals, result, i, history>>

NextGets ==
    \/ Prepopulate
    \/ SetLock(Main) \/ SetLookup(Main) \/ SetStore(Main) \/ SetReturn(Main)
    \/ Spawn
    \/ \E p \in Workers :
          \/ GoGet(p)
          \/ GetLock(p) \/ GetLookup(p) \/ GetReturn(p)
          \/ CountHit(p)
    \/ Wait

SpecGets == Init /\ [][NextGets]_vars

\* -------------------------- TestAnyCache_Keys/concurrent access to keys
\* The keys the main goroutine sets before it starts the workers, and the
\* key worker p sets (the test's 0..49 and 50..99).
PreKeys == 0 .. (NPre - 1)
WorkerKey(p) == NPre + p

\* go func(i int) { defer wg.Done(); cache.Set(i, i) }(i), for i past the
\* prepopulated keys
GoSetHigh(p) ==
    /\ tpc[Main] # "start"
    /\ tpc[p] = "start"
    /\ Invoke(p, SetOp(WorkerKey(p), WorkerKey(p)))
    /\ tpc' = [tpc EXCEPT ![p] = "called"]
    /\ UNCHANGED <<hitCount, i, ncalls>>

\* returnedKeys := cache.Keys(), while the workers run
MainKeys ==
    /\ tpc[Main] = "spawned"
    /\ Invoke(Main, KeysOp)
    /\ tpc' = [tpc EXCEPT ![Main] = "checked"]
    /\ UNCHANGED <<hitCount, i, ncalls>>

NextKeys ==
    \/ Prepopulate
    \/ SetLock(Main) \/ SetLookup(Main) \/ SetStore(Main) \/ SetReturn(Main)
    \/ Spawn
    \/ \E p \in Workers :
          \/ GoSetHigh(p)
          \/ SetLock(p) \/ SetLookup(p) \/ SetStore(p) \/ SetReturn(p)
          \/ Done(p)
    \/ MainKeys
    \/ KeysLock(Main) \/ KeysMake(Main) \/ KeysAppend(Main)
    \/ KeysLoopEnd(Main) \/ KeysReturn(Main)

SpecKeys == Init /\ [][NextKeys]_vars

\* ------------------------------------------------------------------- claims
\* Goroutine p returns from the call whose return statement is at `at`.
Returned(p, at) == pc[p] = at /\ pc'[p] = "idle"

Miss == [op |-> "Get", item |-> ZeroItem, hit |-> FALSE]
Hit(k, v) == [op |-> "Get", item |-> Item(k, v), hit |-> TRUE]
InsideLock == {"Set51", "Set55", "SetRet", "Get66", "GetRet", "Keys78",
               "Keys79", "KeysRet", "Flush90", "FlushRet", "Len97"}
AtLock == {"SetLock", "GetLock", "KeysLock", "FlushLock", "LenLock"}

C2_MaxCapacityAccepted ==
    err # "none" =>
        /\ capacity = maxCacheSize => err = "nil" /\ ac = "store"
        /\ capacity >= maxCacheSize + 1 => err = "ErrMaxCacheSize" /\ ac = "nil"

\* C3: Set(k, v) returns the Item (k, v) and overwritten, which is true
\* exactly when k had been set since construction or the last Flush when the
\* call took the lock; when it returns the entry for k holds v.
C3_SetContract ==
    [][\A p \in Callers :
          Returned(p, "SetRet") =>
              /\ result'[p] =
                    [op |-> "Set", item |-> Item(op[p].key, op[p].value),
                     overwritten |-> (before[op[p].key] # Nil)]
              /\ op[p].key \in DOMAIN items'
              /\ items'[op[p].key] = op[p].value]_vars

\* C3 witness: a Set has returned overwritten = true.
C3_Witness ==
    \E p \in Callers : result[p].op = "Set" /\ result[p].overwritten

\* C4: Get(k) returns (zero Item, false) when k has not been set since
\* construction or the last Flush, and otherwise (Item (k, v), true) with v
\* the value of the latest Set on k; the miss is a boolean, not an error.
C4_GetContract ==
    [][\A p \in Callers :
          Returned(p, "GetRet") =>
              result'[p] =
                  IF lastSet[op[p].key] = Nil THEN Miss
                  ELSE Hit(op[p].key, lastSet[op[p].key])]_vars

\* C4 witness: a Get has returned the value of the second Set on its key.
C4_Witness ==
    \E p, q \in Callers :
        /\ result[p].op = "Get" /\ result[p].hit
        /\ result[q].op = "Set" /\ result[q].overwritten
        /\ result[p].item = result[q].item

\* C5: after a Flush and with no Set since, Len() returns 0 and Get(k)
\* misses for every key k that was set before the Flush.
C5_FlushEmpties ==
    [][flushed.clean =>
          \A p \in Callers :
              /\ Returned(p, "Len97") => result'[p].n = 0
              /\ (Returned(p, "GetRet") /\ op[p].key \in flushed.keys) =>
                    result'[p] = Miss]_vars

\* C5 witness: a Flush has removed keys and a Get on one of them has looked
\* it up since and missed.
C5_Witness ==
    \E p \in Callers :
        /\ flushed.clean
        /\ pc[p] = "GetRet"
        /\ op[p].key \in flushed.keys
        /\ ~ok[p]

\* C6: Keys() returns every key of the store exactly once and no other
\* key: its length is the number of distinct keys set since construction or
\* the last Flush and its elements are exactly those keys.
C6_KeysExact ==
    [][\A p \in Callers :
          Returned(p, "KeysRet") =>
              /\ Len(result'[p].keys) = Cardinality(SetKeys)
              /\ Range(result'[p].keys) = SetKeys
              /\ Range(result'[p].keys) = DOMAIN items]_vars

\* C6 witness: Keys() has returned two keys.
C6_Witness ==
    \E p \in Callers : result[p].op = "Keys" /\ Len(result[p].keys) = 2

\* C7: Len() returns the number of distinct keys set since construction or
\* the last Flush; a Set on an absent key adds exactly one entry and a Set on
\* a present key adds none.
C7_LenCounts ==
    [][\A p \in Callers :
          /\ Returned(p, "Len97") => result'[p].n = Cardinality(SetKeys)
          /\ (pc[p] = "Set55" /\ pc'[p] = "SetRet") =>
                Cardinality(DOMAIN items') =
                    Cardinality(DOMAIN items)
                        + (IF lastSet[op[p].key] = Nil THEN 1 ELSE 0)]_vars

\* C7 witness: Len() has returned 1 after a Set that overwrote a key.
C7_Witness ==
    \E p, q \in Callers :
        /\ result[p].op = "Len" /\ result[p].n = 1
        /\ result[q].op = "Set" /\ result[q].overwritten

\* C8: once the concurrent Sets of all the workers, each on a key of its own,
\* have returned, Len() is the number of workers and every worker's key holds
\* the value that worker set.
C8_NoLostUpdate ==
    tpc[Main] \in {"waited", "checked"} =>
        /\ Cardinality(DOMAIN items) = NWorkers
        /\ \A p \in Workers : p \in DOMAIN items /\ items[p] = p
        /\ result[Main].op = "Len" => result[Main].n = NWorkers

\* C8 witness: every worker is done and Len() has returned.
C8_Witness ==
    /\ tpc[Main] = "checked"
    /\ result[Main].op = "Len"
    /\ \A p \in Workers : result[p].op = "Set"

\* C9: with the store populated and only Gets running concurrently, a Get
\* on a key set before is a hit with the value stored, a Get on a key never
\* set is a miss, and the hits counted are the Gets on keys set before.
C9_ConcurrentGets ==
    /\ \A p \in Workers :
          result[p].op = "Get" =>
              result[p] = IF p < NPre THEN Hit(p, p) ELSE Miss
    /\ tpc[Main] = "waited" =>
          hitCount = Cardinality({p \in Workers : p < NPre})

\* C9 witness: all the workers are done, with hits and with misses.
C9_Witness ==
    /\ tpc[Main] = "waited"
    /\ hitCount > 0
    /\ \E p \in Workers : result[p] = Miss

\* C10: at most one call is between its Lock and its Unlock, and it holds
\* the mutex: every statement that reads or writes ac.items is run by the
\* holder of the lock.
C10_MutualExclusion ==
    /\ Cardinality({p \in Procs : pc[p] \in InsideLock}) <= 1
    /\ \A p \in Procs : pc[p] \in InsideLock => mu = p

\* C10 witness: one caller is about to write the map while another waits
\* at its Lock.
C10_Witness ==
    \E p, q \in Callers :
        /\ p # q
        /\ pc[p] = "Set55"
        /\ pc[q] \in AtLock

RetPcs == {"SetRet", "GetRet", "KeysRet", "FlushRet", "Len97"}

\* A sequential map: a value for every key, Nil for a key that is absent.
Abs(m) == [k \in KeySpace |-> MapGet(m, k)]
Present(m) == {k \in KeySpace : m[k] # Nil}

\* The map a sequential run of call o leaves, starting from m.
SeqApply(m, o) ==
    CASE o.name = "Set" -> [m EXCEPT ![o.key] = o.value]
      [] o.name = "Flush" -> NoneSet
      [] OTHER -> m

\* r is a result a sequential run of call o on map m may return.
SeqAgrees(r, m, o) ==
    CASE o.name = "Set" ->
           r = [op |-> "Set", item |-> Item(o.key, o.value),
                overwritten |-> (m[o.key] # Nil)]
      [] o.name = "Get" ->
           r = IF m[o.key] = Nil THEN Miss ELSE Hit(o.key, m[o.key])
      [] o.name = "Keys" ->
           /\ r.op = "Keys"
           /\ Range(r.keys) = Present(m)
           /\ Len(r.keys) = Cardinality(Present(m))
      [] o.name = "Flush" -> r = [op |-> "Flush"]
      [] o.name = "Len" -> r = [op |-> "Len", n |-> Cardinality(Present(m))]
      [] OTHER -> FALSE

\* C11: the calls are linearizable in the order they take the lock.  The map
\* a call finds when it takes the lock is the map the call before it left;
\* the call returns what a sequential run on that map returns and leaves the
\* map that run leaves; between calls the map does not change.
C11_Linearizable ==
    [][/\ \A p \in Callers :
             /\ (pc[p] \in AtLock /\ pc'[p] \in InsideLock) =>
                   before' = Abs(items)
             /\ (pc[p] \in RetPcs /\ pc'[p] = "idle") =>
                   /\ SeqAgrees(result'[p], before, op[p])
                   /\ Abs(items') = SeqApply(before, op[p])
       /\ ((\A p \in Procs : pc[p] \notin InsideLock)
              /\ (\A p \in Procs : pc'[p] \notin InsideLock)) =>
             items' = items]_vars

\* C11 witness: two calls overlap (one has been invoked and waits while the
\* other is inside) after a third has returned a result.
C11_Witness ==
    \E p, q \in Callers :
        /\ p # q
        /\ pc[p] = "KeysRet" /\ Len(ret[p]) > 0
        /\ pc[q] = "FlushLock"

AllIdle == \A p \in Procs : pc[p] = "idle"

\* C12: every call that took the lock gives it up as it returns, on the miss
\* return of Get as on every other; the lock is given up only by the call
\* that holds it; and with no call in progress the lock is free.
C12_LockReleased ==
    [][/\ \A p \in Callers :
             (pc[p] \in RetPcs /\ pc'[p] = "idle") => (mu = p /\ mu' = Nil)
       /\ (mu # Nil /\ mu' # mu) =>
             (pc[mu] \in RetPcs /\ pc'[mu] = "idle" /\ mu' = Nil)
       /\ AllIdle => mu = Nil
       /\ AllIdle' => mu' = Nil]_vars

\* C12 witness: a Get has returned a miss, no call is in progress and the
\* lock is free.
C12_Witness ==
    /\ AllIdle
    /\ mu = Nil
    /\ \E p \in Callers : result[p] = Miss

\* C13: under fair scheduling every call that has been made returns: no
\* caller stays blocked at the lock and no call stays inside for ever.
C13_EveryCallReturns ==
    \A p \in Callers : (pc[p] # "idle") ~> (pc[p] = "idle")

\* C13 witness: a caller is blocked at its Lock while the call of another
\* holds the mutex in the middle of Keys' loop.
C13_Witness ==
    \E p, q \in Callers :
        /\ p # q
        /\ pc[p] \in AtLock
        /\ mu = q
        /\ pc[q] = "Keys79"

\* ---------------------------------------------------------------------- C14
Readers == {"Get", "Keys", "Len"}

\* C14: Get, Keys and Len leave the store unchanged.  No step of such a call
\* changes ac.items, on a hit and on a miss alike, and when the call returns
\* the entries (the keys and the value of each) are those the store held
\* when the call took the lock.
C14_ReadersLeaveEntries ==
    [][\A p \in Callers :
          op[p].name \in Readers =>
              /\ (pc'[p] # pc[p] \/ ret'[p] # ret[p]) => items' = items
              /\ pc'[p] = "idle" => Abs(items') = before]_vars

\* C14 witness: a Get that missed is about to return from a store that holds
\* an entry, after a Keys and a Len have returned.
C14_Witness ==
    \E p, q \in Callers :
        /\ pc[p] = "GetRet"
        /\ ~ok[p]
        /\ MapLen(items) > 0
        /\ result[q].op \in {"Keys", "Len"}

C16_CapacityNotEnforced ==
    /\ capacity = SmallCapacity
    /\ \A p \in Callers :
          pc[p] = "SetRet" =>
              /\ MapHas(items, op[p].key)
              /\ items[op[p].key] = op[p].value
    /\ \A k \in SetKeys : MapHas(items, k) /\ items[k] = lastSet[k]

\* C16 witness: Len has returned more than the capacity and the store holds
\* more entries than the capacity.
C16_Witness ==
    /\ MapLen(items) > capacity
    /\ \E p \in Callers : result[p].op = "Len" /\ result[p].n > capacity

\* ---------------------------------------------------------------------- C17
\* C17: a Keys that runs while workers Set returns the keys of one instant.
\* When its loop is over the slice holds exactly the keys the store held when
\* Keys took the lock, which are the keys it holds now, each once; and what
\* it returns holds every key set before the workers started, only keys that
\* have been set, and between NPre and NPre + NWorkers keys.
C17_KeysOfOneInstant ==
    /\ pc[Main] = "KeysRet" =>
          /\ Range(ret[Main]) = Present(before)
          /\ Range(ret[Main]) = DOMAIN items
          /\ Cardinality(Range(ret[Main])) = Len(ret[Main])
    /\ result[Main].op = "Keys" =>
          /\ PreKeys \subseteq Range(result[Main].keys)
          /\ Range(result[Main].keys) \subseteq SetKeys
          /\ Range(result[Main].keys)
                 \subseteq PreKeys \cup {WorkerKey(p) : p \in Workers}
          /\ Len(result[Main].keys) >= NPre
          /\ Len(result[Main].keys) <= NPre + NWorkers
          /\ Cardinality(Range(result[Main].keys)) = Len(result[Main].keys)

\* C17 witness: Keys has returned the prepopulated keys and the keys of some
\* of the workers but not of all, and a worker's Set is still to store.
C17_Witness ==
    /\ result[Main].op = "Keys"
    /\ Len(result[Main].keys) > NPre
    /\ Len(result[Main].keys) < NPre + NWorkers
    /\ \E p \in Workers : pc[p] \in {"SetLock", "Set51", "Set55"}

\* ---------------------------------------------------------------------- C18
\* C18: Set with a key that is not comparable panics and does not return.
\* Such a call never gets past its lookup and no Set result carries the key;
\* the key is never in the map and the entries stay those of the Sets that
\* stored; and the mutex is held only by a call that is under way, so the
\* panic left it free for the calls that follow.
C18_PanicLeavesStoreUsable ==
    /\ ~MapHas(items, Incmp)
    /\ Abs(items) = lastSet
    /\ \A p \in Callers :
          /\ pc[p] \in {"Set55", "SetRet"} => Comparable(op[p].key)
          /\ result[p].op = "Set" => Comparable(result[p].item.Key)
    /\ mu # Nil => pc[mu] \in InsideLock

\* C18 witness: a Set has panicked, and a later Get holds the lock and has
\* found an entry that was stored before the panic.
C18_Witness ==
    \E p, q \in Callers :
        /\ p # q
        /\ result[p] = Panic
        /\ mu = q
        /\ pc[q] = "GetRet"
        /\ ok[q]

\* ---------------------------------------------------------------------- C19
\* C19: Set(k, v) changes the entry of k alone.  No step of the call changes
\* whether a key other than k is present or the value it has, and when the
\* call returns every key other than k is as it was when Set took the lock.
C19_SetChangesOneEntry ==
    [][\A p \in Callers :
          op[p].name = "Set" =>
              /\ pc'[p] # pc[p] =>
                    \A j \in KeySpace \ {op[p].key} :
                        /\ MapHas(items', j) = MapHas(items, j)
                        /\ MapGet(items', j) = MapGet(items, j)
              /\ pc'[p] = "idle" =>
                    \A j \in KeySpace \ {op[p].key} :
                        Abs(items')[j] = before[j]]_vars

\* C19 witness: a Set has replaced the value of its key in a store that
\* holds another key as well.
C19_Witness ==
    \E p \in Callers :
        /\ pc[p] = "SetRet"
        /\ overwritten[p]
        /\ \E j \in KeySpace \ {op[p].key} : MapHas(items, j)

\* ---------------------------------------------------------------------- C20
\* C20: the copy of the struct that Get, Keys and Len run on shares the
\* mutex and the map of the store Set and Flush run on.  The copy's fields
\* refer to the same mutex and the same map; no call on the copy is inside
\* its lock while a call on the pointer is inside its own; and what a call
\* on the copy reads is what the Sets and Flushes on the pointer have left.
C20_CopySharesLockAndMap ==
    /\ \A n \in ValueReceivers :
          /\ Receiver(n).mu = Receiver("Set").mu
          /\ Receiver(n).items = Receiver("Flush").items
    /\ \A p, q \in Callers :
          ~ /\ pc[p] \in {"Get66", "GetRet", "Keys78", "Keys79", "KeysRet",
                          "Len97"}
            /\ pc[q] \in {"Set51", "Set55", "SetRet", "Flush90", "FlushRet"}
    /\ \A p \in Callers :
          /\ pc[p] = "GetRet" =>
                /\ ok[p] = (lastSet[op[p].key] # Nil)
                /\ item[p] = lastSet[op[p].key]
          /\ pc[p] = "KeysRet" => Range(ret[p]) = SetKeys
          /\ pc[p] = "Len97" => LenResult(p).n = Cardinality(SetKeys)

\* C20 witness: a Get on the copy has found the value that a Set on the
\* pointer, made by another caller, stored and returned.
C20_Witness ==
    \E p, q \in Callers :
        /\ p # q
        /\ result[q].op = "Set"
        /\ pc[p] = "GetRet"
        /\ ok[p]
        /\ op[p].key = result[q].item.Key
        /\ item[p] = result[q].item.Value

====
